---- MODULE Spec2Model ----
(***************************************************************************)
(* ojcal (src/main.py): DEF/EVD survival calculator for 100% Orange Juice. *)
(*                                                                         *)
(* The module has two specifications.                                      *)
(*   Spec      the program main(): the -q command line path, the initial   *)
(*             settings, and the interactive loop in both input modes,     *)
(*             calling the core.                                           *)
(*   CoreSpec  the core functions applied to every combination of bounded  *)
(*             integer arguments and valid dice configurations.            *)
(*                                                                         *)
(* Text typed by the user is modelled as a sequence of fields (the pieces  *)
(* between separators, already stripped); a field is a string, and int()   *)
(* is the partial inverse of the decimal rendering of an integer.          *)
(* A survival probability is the float survival_count / total_outcomes;    *)
(* it is represented by that quotient in lowest terms, so two              *)
(* probabilities are the same float exactly when the records are equal     *)
(* (the counts are far below 2^53, where float division is injective on    *)
(* distinct rationals of this size).                                       *)
(***************************************************************************)
EXTENDS Integers, Sequences, FiniteSets, TLC

\* ---- bounds -------------------------------------------------------------
MaxVal   == 2    \* largest integer typed or passed as a combat parameter
NegVals  == 1    \* how many integers below zero are typed or passed
MaxDice  == 2    \* most dice in one configuration
MaxFaces == 2    \* most faces of one die in CoreSpec

DefaultFaces == 6   \* the default die, [6]

Ints == (0 - NegVals)..MaxVal

VARIABLES
  pc,                  \* position of main()
  use_quick_input,     \* main(): one-line input mode chosen at start-up
  always_show_detail,  \* main(): detailed analysis after every result
  current_hp, attack_power, def_value, evd_value, dice_config,
  ret                  \* the last core call: function, arguments, result

vars == <<pc, use_quick_input, always_show_detail, current_hp, attack_power,
          def_value, evd_value, dice_config, ret>>

Unbound == "unbound"            \* a local name not yet assigned
NoCall  == [fn |-> "none"]

\* ---- core: damage resolvers ----------------------------------------------
RECURSIVE sum(_)
sum(s) == IF s = <<>> THEN 0 ELSE Head(s) + sum(Tail(s))

max(a, b) == IF a >= b THEN a ELSE b

\* variant: the floor is 0 instead of 1
calculate_def_damage_floor0(attack, defv, dice_rolls) ==
  LET total_dice == sum(dice_rolls)
      damage     == attack - defv - total_dice
  IN  max(0, damage)

\* variant: no floor at all
calculate_def_damage_nofloor(attack, defv, dice_rolls) ==
  attack - defv - sum(dice_rolls)

calculate_def_damage(attack, defv, dice_rolls) ==
  LET total_dice == sum(dice_rolls)
      damage     == attack - defv - total_dice
  IN  max(1, damage)

\* variant: evasion succeeds on equality
calculate_evd_damage_ge(attack, evdv, dice_rolls) ==
  LET total_dice == sum(dice_rolls)
  IN  IF evdv + total_dice >= attack THEN 0 ELSE attack

\* variant: only the first die is added to the evasion stat
calculate_evd_damage_first(attack, evdv, dice_rolls) ==
  LET total_dice == IF dice_rolls = <<>> THEN 0 ELSE Head(dice_rolls)
  IN  IF evdv + total_dice > attack THEN 0 ELSE attack

calculate_evd_damage(attack, evdv, dice_rolls) ==
  LET total_dice == sum(dice_rolls)
  IN  IF evdv + total_dice > attack THEN 0 ELSE attack

\* ---- core: combination generator -----------------------------------------
\* range(1, faces + 1): empty when faces < 1
\* variant: range(1, faces), the last face is missing
range1_excl(faces) == [i \in 1..(faces - 1) |-> i]

range1(faces) == [i \in 1..faces |-> i]

\* one pass of itertools.product: [x + [y] for x in result for y in pool]
extend(result, pool) ==
  [k \in 1..(Len(result) * Len(pool)) |->
     Append(result[((k - 1) \div Len(pool)) + 1],
            pool[((k - 1) % Len(pool)) + 1])]

RECURSIVE product(_, _)
product(pools, result) ==
  IF pools = <<>> THEN result
  ELSE product(Tail(pools), extend(result, Head(pools)))

generate_dice_combinations(config) ==
  LET dice_ranges == [i \in 1..Len(config) |-> range1(config[i])]
  IN  product(dice_ranges, << <<>> >>)

\* ---- core: probability aggregator ----------------------------------------
RECURSIVE gcd(_, _)
gcd(a, b) == IF b = 0 THEN a ELSE gcd(b, a % b)

\* the value of the float division n / d, for 0 <= n and 0 < d
quotient(n, d) == LET g == gcd(n, d) IN [num |-> n \div g, den |-> d \div g]

prob_gt(p, q) == p.num * q.den > q.num * p.den

\* variant: hit points equal to the damage count as survival
survives_ge(hp, damage) == hp >= damage

survives(hp, damage) == hp > damage

\* the body of the for loop on one outcome: does the defender survive it
survives_roll(dice_rolls, hp, attack, defv, evdv, use_def) ==
  survives(hp, IF use_def
               THEN calculate_def_damage(attack, defv, dice_rolls)
               ELSE calculate_evd_damage(attack, evdv, dice_rolls))

\* survival_count after the first k iterations of the for loop
RECURSIVE count_loop(_, _)
count_loop(survived, k) ==
  IF k = 0 THEN 0
  ELSE count_loop(survived, k - 1) + (IF survived[k] THEN 1 ELSE 0)

\* survival_count / total_outcomes; raised: ZeroDivisionError
divide(survival_count, total_outcomes) ==
  IF total_outcomes = 0
  THEN [raised |-> TRUE,  value |-> [num |-> 0, den |-> 0]]
  ELSE [raised |-> FALSE, value |-> quotient(survival_count, total_outcomes)]

aggregate(dice_combinations, hp, attack, defv, evdv, use_def) ==
  divide(count_loop([k \in 1..Len(dice_combinations) |->
                       survives_roll(dice_combinations[k], hp, attack, defv,
                                     evdv, use_def)],
                    Len(dice_combinations)),
         Len(dice_combinations))

calculate_survival_probability(hp, attack, defv, evdv, use_def, config) ==
  aggregate(generate_dice_combinations(config), hp, attack, defv, evdv, use_def)

\* ---- core: recommendation -------------------------------------------------
Tie == "DEF/EVD"     \* "DEF/EVD (same win rate)" in the source

\* variant: a tie is reported as "DEF"
recommend_ge(def_probability, evd_probability) ==
  IF ~prob_gt(evd_probability, def_probability) THEN "DEF"
  ELSE IF prob_gt(evd_probability, def_probability) THEN "EVD"
  ELSE Tie

recommend(def_probability, evd_probability) ==
  IF prob_gt(def_probability, evd_probability) THEN "DEF"
  ELSE IF prob_gt(evd_probability, def_probability) THEN "EVD"
  ELSE Tie

compare(d, e) ==
  IF d.raised \/ e.raised
  THEN [raised |-> TRUE, recommendation |-> "", def_prob |-> d.value,
        evd_prob |-> e.value]
  ELSE [raised |-> FALSE,
        recommendation |-> recommend(d.value, e.value),
        def_prob |-> d.value, evd_prob |-> e.value]

analyze_best_choice(hp, attack, defv, evdv, config) ==
  compare(calculate_survival_probability(hp, attack, defv, evdv, TRUE, config),
          calculate_survival_probability(hp, attack, defv, evdv, FALSE, config))

\* ---- shell: text and parsing -------------------------------------------------
NumFields == {ToString(n) : n \in Ints}    \* the decimal text of an integer

\* int(x): ValueError unless x is the text of an integer
IntOf     == [x \in NumFields |-> CHOOSE n \in Ints : ToString(n) = x]
is_int(x) == x \in NumFields
int(x)    == IntOf[x]

lower(x) == IF x = "EXIT" THEN "exit" ELSE x

\* A line typed for the one-line format.  comma: the line contains ','; then
\* it has at least two fields and a field may be empty or hold other text.
\* Without a comma the fields are the whitespace-separated words.
CommaFields == NumFields \cup {"", "x"}
WordFields  == NumFields \cup {"x"}
MaxFields   == 4 + MaxDice

ExitLines == {[comma |-> FALSE, fields |-> <<w>>] : w \in {"exit", "EXIT"}}

CommaLine(f) == [comma |-> TRUE, fields |-> f]
WordLine(f)  == [comma |-> FALSE, fields |-> f]

is_exit(line)  == ~line.comma /\ Len(line.fields) = 1
                  /\ lower(line.fields[1]) = "exit"
is_blank(line) == ~line.comma /\ line.fields = <<>>

\* raised: ValueError
parse_quick_input(args_str) ==
  LET parts == IF args_str.comma
               THEN args_str.fields
               ELSE SelectSeq(args_str.fields, LAMBDA x : x # "")
  IN  IF Len(parts) < 4 THEN [raised |-> TRUE]
      ELSE IF \E i \in 1..Len(parts) : ~is_int(parts[i]) THEN [raised |-> TRUE]
      ELSE [raised       |-> FALSE,
            current_hp   |-> int(parts[1]),
            attack_power |-> int(parts[2]),
            def_value    |-> int(parts[3]),
            evd_value    |-> int(parts[4]),
            dice_config  |-> IF Len(parts) > 4
                             THEN [i \in 1..(Len(parts) - 4) |-> int(parts[i + 4])]
                             ELSE <<DefaultFaces>>]

\* The text typed at the dice prompt, as its comma-separated fields; the
\* empty text is the single empty field.
DiceStrings ==
  UNION {[1..n -> CommaFields] : n \in 1..MaxDice} \cup {<<"exit">>, <<"EXIT">>}

parse_dice_config(dice_str) ==
  IF dice_str = <<"">> THEN <<DefaultFaces>>
  ELSE IF \E i \in 1..Len(dice_str) : ~is_int(dice_str[i])
       THEN <<DefaultFaces>>
  ELSE LET config == [i \in 1..Len(dice_str) |-> int(dice_str[i])]
       IN  IF \E i \in 1..Len(config) : config[i] < 1
           THEN <<DefaultFaces>>
           ELSE config

\* ---- shell: main() -------------------------------------------------------------
PromptInputs == NumFields \cup {"", "x", "exit", "EXIT"}

Init ==
  /\ pc = "start"
  /\ use_quick_input = FALSE
  /\ always_show_detail = FALSE
  /\ current_hp = Unbound
  /\ attack_power = Unbound
  /\ def_value = Unbound
  /\ evd_value = Unbound
  /\ dice_config = Unbound
  /\ ret = NoCall

Settings == UNCHANGED <<use_quick_input, always_show_detail>>
Locals   == <<current_hp, attack_power, def_value, evd_value, dice_config>>

\* Back at the "new calculation" banner.  Every local is assigned again
\* before it is read in the next iteration, so the values are dropped here.
LoopHead ==
  /\ pc' = "loop"
  /\ current_hp' = Unbound
  /\ attack_power' = Unbound
  /\ def_value' = Unbound
  /\ evd_value' = Unbound
  /\ dice_config' = Unbound
  /\ ret' = NoCall

Bind(parsed) ==
  /\ current_hp' = parsed.current_hp
  /\ attack_power' = parsed.attack_power
  /\ def_value' = parsed.def_value
  /\ evd_value' = parsed.evd_value
  /\ dice_config' = parsed.dice_config

Invoke(parsed) ==
  [fn |-> "analyze_best_choice",
   value |-> analyze_best_choice(parsed.current_hp, parsed.attack_power,
                                 parsed.def_value, parsed.evd_value,
                                 parsed.dice_config)]

\* python main.py -q <text>: parse, compute, print, return; any Exception is
\* caught and reported
QuickArgLine(line) ==
  LET parsed == parse_quick_input(line) IN
  IF parsed.raised
  THEN UNCHANGED <<Locals, ret>>
  ELSE Bind(parsed) /\ ret' = Invoke(parsed)

QuickArg ==
  /\ pc = "start"
  /\ \/ \E line \in ExitLines : QuickArgLine(line)
     \/ \E n \in 2..MaxFields : \E f \in [1..n -> CommaFields] :
          QuickArgLine(CommaLine(f))
     \/ \E n \in 0..MaxFields : \E f \in [1..n -> WordFields] :
          QuickArgLine(WordLine(f))
  /\ pc' = "exited"
  /\ Settings

\* no -q: the banner and the two start-up questions
InitialSetup ==
  /\ pc = "start"
  /\ \E input_mode \in {"1", "2", ""}, show_detail_input \in {"y", "yes", "n", ""} :
       /\ use_quick_input' = (input_mode = "2")
       /\ always_show_detail' = (show_detail_input \in {"y", "yes"})
  /\ pc' = "loop"
  /\ UNCHANGED <<Locals, ret>>

\* one-line mode: read the line and parse it
ReadLine(quick_input) ==
  IF is_exit(quick_input) THEN pc' = "exited" /\ UNCHANGED <<Locals, ret>>
  ELSE IF is_blank(quick_input) THEN LoopHead
  ELSE LET parsed == parse_quick_input(quick_input) IN
       IF parsed.raised THEN LoopHead
       ELSE Bind(parsed) /\ pc' = "validate" /\ UNCHANGED ret

ReadQuickLine ==
  /\ pc = "loop"
  /\ use_quick_input
  /\ \/ \E line \in ExitLines : ReadLine(line)
     \/ \E n \in 2..MaxFields : \E f \in [1..n -> CommaFields] :
          ReadLine(CommaLine(f))
     \/ \E n \in 0..MaxFields : \E f \in [1..n -> WordFields] :
          ReadLine(WordLine(f))
  /\ Settings

\* item-by-item mode: one prompt each
InputHp ==
  /\ pc = "loop"
  /\ ~use_quick_input
  /\ \E hp_input \in PromptInputs :
       IF lower(hp_input) = "exit" THEN pc' = "exited" /\ UNCHANGED <<Locals, ret>>
       ELSE IF ~is_int(hp_input) THEN LoopHead
       ELSE /\ current_hp' = int(hp_input)
            /\ pc' = "attack"
            /\ UNCHANGED <<attack_power, def_value, evd_value, dice_config, ret>>
  /\ Settings

InputAttack ==
  /\ pc = "attack"
  /\ \E attack_input \in PromptInputs :
       IF lower(attack_input) = "exit" THEN pc' = "exited" /\ UNCHANGED <<Locals, ret>>
       ELSE IF ~is_int(attack_input) THEN LoopHead
       ELSE /\ attack_power' = int(attack_input)
            /\ pc' = "def"
            /\ UNCHANGED <<current_hp, def_value, evd_value, dice_config, ret>>
  /\ Settings

InputDef ==
  /\ pc = "def"
  /\ \E def_input \in PromptInputs :
       IF lower(def_input) = "exit" THEN pc' = "exited" /\ UNCHANGED <<Locals, ret>>
       ELSE IF ~is_int(def_input) THEN LoopHead
       ELSE /\ def_value' = int(def_input)
            /\ pc' = "evd"
            /\ UNCHANGED <<current_hp, attack_power, evd_value, dice_config, ret>>
  /\ Settings

InputEvd ==
  /\ pc = "evd"
  /\ \E evd_input \in PromptInputs :
       IF lower(evd_input) = "exit" THEN pc' = "exited" /\ UNCHANGED <<Locals, ret>>
       ELSE IF ~is_int(evd_input) THEN LoopHead
       ELSE /\ evd_value' = int(evd_input)
            /\ pc' = "dice"
            /\ UNCHANGED <<current_hp, attack_power, def_value, dice_config, ret>>
  /\ Settings

InputDice ==
  /\ pc = "dice"
  /\ \E dice_input \in DiceStrings :
       IF Len(dice_input) = 1 /\ lower(dice_input[1]) = "exit"
       THEN pc' = "exited" /\ UNCHANGED <<Locals, ret>>
       ELSE /\ dice_config' = parse_dice_config(dice_input)
            /\ pc' = "validate"
            /\ UNCHANGED <<current_hp, attack_power, def_value, evd_value, ret>>
  /\ Settings

\* the checks on HP and attack, then the call of the core; an exception that
\* is neither ValueError nor KeyboardInterrupt leaves main()
Evaluate ==
  /\ pc = "validate"
  /\ IF current_hp <= 0 \/ attack_power <= 0 THEN LoopHead
     ELSE LET call == Invoke([current_hp |-> current_hp,
                              attack_power |-> attack_power,
                              def_value |-> def_value,
                              evd_value |-> evd_value,
                              dice_config |-> dice_config])
          IN  /\ ret' = call
              /\ pc' = IF call.value.raised THEN "crashed" ELSE "report"
              /\ UNCHANGED Locals
  /\ Settings

\* print the result (and the detailed analysis when asked for)
Report ==
  /\ pc = "report"
  /\ LoopHead
  /\ Settings

\* Ctrl-C anywhere inside the loop's try block.  The terminal stays open:
\* end of input (EOFError) is not among the inputs drawn.
KeyboardInterrupt ==
  /\ pc \in {"loop", "attack", "def", "evd", "dice", "validate", "report"}
  /\ pc' = "exited"
  /\ UNCHANGED <<Locals, ret>>
  /\ Settings

Next ==
  \/ QuickArg
  \/ InitialSetup
  \/ ReadQuickLine
  \/ InputHp
  \/ InputAttack
  \/ InputDef
  \/ InputEvd
  \/ InputDice
  \/ Evaluate
  \/ Report
  \/ KeyboardInterrupt

Spec == Init /\ [][Next]_vars

\* ---- CoreSpec: the core applied to bounded arguments -----------------------
\* dice configurations the core is specified for: 1..MaxDice dice, faces >= 1
ValidConfigs ==
  UNION {[1..n -> 1..MaxFaces] : n \in 1..MaxDice}

CoreInit ==
  /\ pc = "core"
  /\ use_quick_input = FALSE
  /\ always_show_detail = FALSE
  /\ current_hp \in Ints
  /\ attack_power \in Ints
  /\ def_value \in Ints
  /\ evd_value \in Ints
  /\ dice_config \in ValidConfigs
  /\ ret = NoCall

\* one call per drawn argument tuple: the core keeps nothing between calls
CoreEntry == pc = "core" /\ ret = NoCall

CoreFrame ==
  UNCHANGED <<pc, use_quick_input, always_show_detail, current_hp,
              attack_power, def_value, evd_value, dice_config>>

CallGenerate ==
  /\ CoreEntry
  /\ ret' = [fn |-> "generate_dice_combinations",
             value |-> generate_dice_combinations(dice_config)]
  /\ CoreFrame

\* the resolver applied to every outcome, as the detailed analysis does
CallDefDamage ==
  /\ CoreEntry
  /\ \E combos \in {generate_dice_combinations(dice_config)} :
         ret' = [fn |-> "calculate_def_damage", dice_combinations |-> combos,
                 value |-> [k \in 1..Len(combos) |->
                              calculate_def_damage(attack_power, def_value,
                                                   combos[k])]]
  /\ CoreFrame

CallEvdDamage ==
  /\ CoreEntry
  /\ \E combos \in {generate_dice_combinations(dice_config)} :
         ret' = [fn |-> "calculate_evd_damage", dice_combinations |-> combos,
                 value |-> [k \in 1..Len(combos) |->
                              calculate_evd_damage(attack_power, evd_value,
                                                   combos[k])]]
  /\ CoreFrame

CallSurvival ==
  /\ CoreEntry
  /\ \E use_def \in BOOLEAN :
       ret' = [fn |-> "calculate_survival_probability", use_def |-> use_def,
               value |-> calculate_survival_probability(
                           current_hp, attack_power, def_value, evd_value,
                           use_def, dice_config)]
  /\ CoreFrame

CallAnalyze ==
  /\ CoreEntry
  /\ ret' = [fn |-> "analyze_best_choice",
             value |-> analyze_best_choice(current_hp, attack_power,
                                           def_value, evd_value, dice_config)]
  /\ CoreFrame

CoreNext ==
  \/ CallGenerate
  \/ CallDefDamage
  \/ CallEvdDamage
  \/ CallSurvival
  \/ CallAnalyze

CoreSpec == CoreInit /\ [][CoreNext]_vars
\* ---- properties of the core (CoreSpec) --------------------------------------
RECURSIVE prod(_)
prod(s) == IF s = <<>> THEN 1 ELSE Head(s) * prod(Tail(s))

MaxOf(config) == CHOOSE m \in {config[i] : i \in DOMAIN config} :
                   \A i \in DOMAIN config : config[i] <= m

\* the Cartesian product [1..faces_1] x ... x [1..faces_n] as a set
OutcomeSet(config) ==
  {t \in [DOMAIN config -> 1..MaxOf(config)] :
     \A i \in DOMAIN config : t[i] <= config[i]}

\* the outcomes that leave current_hp strictly above the damage
SurvivorSet(use_def) ==
  {t \in OutcomeSet(dice_config) :
     current_hp > (IF use_def
                   THEN calculate_def_damage(attack_power, def_value, t)
                   ELSE calculate_evd_damage(attack_power, evd_value, t))}

PermutationsOf(config) ==
  {[i \in DOMAIN config |-> config[f[i]]] : f \in Permutations(DOMAIN config)}

\* C4: for a configuration with all faces >= 1 generate_dice_combinations
\* returns the Cartesian product of the ranges 1..faces_i: as many outcomes as
\* the product of the face counts, one value per die within 1..faces_i, no
\* outcome twice (hence every outcome of the product is present).
C4_CartesianProduct ==
  ret.fn = "generate_dice_combinations" =>
    LET out == ret.value IN
    /\ Len(out) = prod(dice_config)
    /\ \A k \in 1..Len(out) :
         /\ Len(out[k]) = Len(dice_config)
         /\ \A i \in 1..Len(dice_config) : out[k][i] \in 1..dice_config[i]
    /\ \A j, k \in 1..Len(out) : j # k => out[j] # out[k]
    /\ {out[k] : k \in 1..Len(out)} = OutcomeSet(dice_config)

C4_Witness ==
  /\ ret.fn = "generate_dice_combinations"
  /\ dice_config = <<2, 1>>
  /\ ret.value = << <<1, 1>>, <<2, 1>> >>

\* C5: calculate_survival_probability returns (number of outcomes with
\* current_hp > damage under the selected resolver) / (number of outcomes);
\* the count is between 0 and the total, so the probability is in [0, 1].
C5_SurvivalFraction ==
  ret.fn = "calculate_survival_probability" =>
    LET n     == Cardinality(SurvivorSet(ret.use_def))
        total == Cardinality(OutcomeSet(dice_config))
        p     == ret.value.value
    IN
    /\ ~ret.value.raised
    /\ 0 <= n /\ n <= total
    /\ p.den > 0
    /\ p.num * total = n * p.den
    /\ 0 <= p.num /\ p.num <= p.den

\* an outcome with damage equal to current_hp exists and is counted as death
C5_Witness ==
  /\ ret.fn = "calculate_survival_probability"
  /\ ret.use_def
  /\ \E t \in OutcomeSet(dice_config) :
       calculate_def_damage(attack_power, def_value, t) = current_hp
  /\ ret.value.value.num > 0
  /\ ret.value.value.num < ret.value.value.den

\* C6: calculate_def_damage returns max(1, attack_power - def_value - sum of
\* the rolls) for all integers, so the damage is at least 1.
C6_DefDamageFloor ==
  ret.fn = "calculate_def_damage" =>
    \A k \in 1..Len(ret.value) :
      LET raw == attack_power - def_value - sum(ret.dice_combinations[k]) IN
      /\ ret.value[k] >= 1
      /\ raw >= 1 => ret.value[k] = raw
      /\ raw < 1  => ret.value[k] = 1

\* with def_value <= 0 the floor acts on one roll and not on another
C6_Witness ==
  /\ ret.fn = "calculate_def_damage"
  /\ def_value <= 0
  /\ \E k \in 1..Len(ret.value) :
       /\ attack_power - def_value - sum(ret.dice_combinations[k]) < 1
       /\ ret.value[k] = 1
  /\ \E k \in 1..Len(ret.value) :
       /\ attack_power - def_value - sum(ret.dice_combinations[k]) >= 1
       /\ ret.value[k] = attack_power - def_value - sum(ret.dice_combinations[k])

\* C7: calculate_evd_damage returns 0 exactly when evd_value + sum of the
\* rolls > attack_power (equality is a failed evasion) and attack_power
\* otherwise.
C7_EvdDamageBinary ==
  ret.fn = "calculate_evd_damage" =>
    \A k \in 1..Len(ret.value) :
      LET total == evd_value + sum(ret.dice_combinations[k]) IN
      /\ total > attack_power  => ret.value[k] = 0
      /\ total <= attack_power => ret.value[k] = attack_power
      /\ ret.value[k] \in {0, attack_power}

\* a roll that exactly meets the attack fails, a higher one evades
C7_Witness ==
  /\ ret.fn = "calculate_evd_damage"
  /\ attack_power > 0
  /\ \E k \in 1..Len(ret.value) :
       /\ evd_value + sum(ret.dice_combinations[k]) = attack_power
       /\ ret.value[k] = attack_power
  /\ \E k \in 1..Len(ret.value) : ret.value[k] = 0

\* C8: analyze_best_choice recommends "DEF" iff the flat-reduction probability
\* is strictly greater, "EVD" iff the evasion probability is strictly greater,
\* and the tie iff the two are equal, i.e. iff the two survival counts over
\* the outcomes of the one dice configuration are equal.
C8_Recommendation ==
  ret.fn = "analyze_best_choice" =>
    LET v     == ret.value
        nd    == Cardinality(SurvivorSet(TRUE))
        ne    == Cardinality(SurvivorSet(FALSE))
        total == Cardinality(OutcomeSet(dice_config))
    IN
    /\ ~v.raised
    /\ v.def_prob.num * total = nd * v.def_prob.den
    /\ v.evd_prob.num * total = ne * v.evd_prob.den
    /\ v.recommendation \in {"DEF", "EVD", Tie}
    /\ v.recommendation = "DEF" <=> nd > ne
    /\ v.recommendation = "EVD" <=> ne > nd
    /\ v.recommendation = Tie <=> nd = ne
    /\ v.recommendation = Tie <=> v.def_prob = v.evd_prob

\* a tie between two probabilities strictly between 0 and 1
C8_Witness ==
  /\ ret.fn = "analyze_best_choice"
  /\ ret.value.recommendation = Tie
  /\ ret.value.def_prob.num > 0
  /\ ret.value.def_prob.num < ret.value.def_prob.den

\* C9: permuting the dice of the configuration changes neither of the two
\* survival probabilities nor the recommendation.
C9_OrderIrrelevant ==
  /\ ret.fn = "analyze_best_choice" =>
       \A p \in PermutationsOf(dice_config) :
         analyze_best_choice(current_hp, attack_power, def_value, evd_value, p)
           = ret.value
  /\ ret.fn = "calculate_survival_probability" =>
       \A p \in PermutationsOf(dice_config) :
         calculate_survival_probability(current_hp, attack_power, def_value,
                                        evd_value, ret.use_def, p)
           = ret.value

\* two different dice, an evasion probability strictly between 0 and 1 and
\* a different flat-reduction probability
C9_Witness ==
  /\ ret.fn = "analyze_best_choice"
  /\ Len(dice_config) = 2
  /\ dice_config[1] # dice_config[2]
  /\ ret.value.evd_prob.num > 0
  /\ ret.value.evd_prob.num < ret.value.evd_prob.den
  /\ ret.value.recommendation = "DEF"

\* C10: with current_hp = 1 the flat-reduction probability is 0 and "DEF" is
\* never recommended; for an attack strength (a positive integer) the
\* recommendation is "EVD" if some outcome evades and the tie otherwise.
C10_OneHitPoint ==
  current_hp = 1 =>
    /\ (ret.fn = "calculate_survival_probability" /\ ret.use_def) =>
         ret.value.value.num = 0
    /\ ret.fn = "analyze_best_choice" =>
         /\ ret.value.def_prob.num = 0
         /\ ret.value.recommendation # "DEF"
         /\ attack_power > 0 =>
              ret.value.recommendation =
                IF \E t \in OutcomeSet(dice_config) :
                     evd_value + sum(t) > attack_power
                THEN "EVD" ELSE Tie

\* the floor is what keeps the damage at 1: a roll would otherwise cancel it
C10_Witness ==
  /\ current_hp = 1
  /\ ret.fn = "analyze_best_choice"
  /\ ret.value.recommendation = "EVD"
  /\ \E t \in OutcomeSet(dice_config) :
       attack_power - def_value - sum(t) < 1
  /\ attack_power > 0
\* ---- properties of the shell (Spec) --------------------------------------------
\* C1: on every input path the core is called only with dice configurations
\* whose face counts are all >= 1, so the aggregator never divides by a total
\* outcome count of 0.
C1_FacesValidated ==
  ret.fn = "analyze_best_choice" =>
    /\ \A i \in 1..Len(dice_config) : dice_config[i] >= 1
    /\ ~ret.value.raised

\* C2: on every input path the core is called only with current_hp > 0 and
\* attack_power > 0.
C2_PositiveHpAndAttack ==
  ret.fn = "analyze_best_choice" => (current_hp > 0 /\ attack_power > 0)

\* C3: no input terminates the process with an unhandled exception: from
\* inside the interactive loop main() either stays in the loop or leaves it
\* through 'exit' or a keyboard interrupt.
C3_NoFatalTermination ==
  pc # "crashed"
====
